---------------------------- MODULE Spec2Model ----------------------------
(***************************************************************************)
(* ECDSA over secp256k1: the DER codec (der_read_len, der_parse_integer,   *)
(* ecdsa_sig_parse, ecdsa_sig_serialize) and the engine (ecdsa_sig_verify, *)
(* ecdsa_sig_sign) of src/secp256k1-sys/depend/secp256k1/src/ecdsa_impl.h. *)
(*                                                                         *)
(* The codec is modelled with the widths of the source: 8-bit bytes,       *)
(* 32-byte scalars, 33-byte serialization scratch arrays.  The scalar,     *)
(* field and group collaborators (scalar.h, field.h, group.h, ecmult.h)    *)
(* are outside the file; they are modelled by their contracts over a small *)
(* curve of the same shape as secp256k1: y^2 = x^3 + 7 over F_p with prime *)
(* group order n and n < p < 2n.  Here p = 967 and n = 907, so a scalar    *)
(* occupies the low two bytes of its 32-byte big-endian encoding.          *)
(***************************************************************************)
EXTENDS Integers, Sequences, FiniteSets, TLC

(***************************************************************************)
(* Curve parameters (scaled) and the two constants of the file.            *)
(***************************************************************************)
\* the field prime p
FieldPrime == 967
\* the group order n
GroupOrder == 907
\* the curve coefficient b of y^2 = x^3 + b
CurveB == 7

\* n as a field element (lines 31-34)
ecdsa_const_order_as_fe == GroupOrder
\* p - n as a field element (lines 45-47)
ecdsa_const_p_minus_order == FieldPrime - GroupOrder

\* width of a scalar / field element in bytes: unsigned char ra[32], c[32], b[32]
ScalarBytes == 32
\* sizeof(size_t) of the build (line 77)
sizeof_size_t == 8
\* a scalar object no call has written yet
Unset == -1

Byte == 0..255

(***************************************************************************)
(* Byte strings.  A C buffer is a sequence; the byte at offset o is        *)
(* buf[o + 1].                                                             *)
(***************************************************************************)
At(buf, o) == buf[o + 1]

Zeros(k) == [i \in 1..k |-> 0]

Fill(k, b) == [i \in 1..k |-> b]

\* bytes [from, from + len) of buf
Slice(buf, from, len) == [i \in 1..len |-> buf[from + i]]

RECURSIVE BEmod(_, _)
\* the big-endian value of a byte string, reduced modulo m
BEmod(bytes, m) ==
    IF Len(bytes) = 0 THEN 0
    ELSE (BEmod(SubSeq(bytes, 1, Len(bytes) - 1), m) * 256 + bytes[Len(bytes)]) % m

\* the k-byte big-endian encoding of v
BEbytes(v, k) ==
    [i \in 1..k |-> IF k - i >= 3 THEN 0
                    ELSE IF k - i = 2 THEN (v \div 65536) % 256
                    ELSE IF k - i = 1 THEN (v \div 256) % 256
                    ELSE v % 256]

RECURSIVE BEless(_, _)
\* a < b for two byte strings of one length, as big-endian numbers
BEless(a, b) ==
    IF Len(a) = 0 THEN FALSE
    ELSE IF a[1] # b[1] THEN a[1] < b[1]
    ELSE BEless(Tail(a), Tail(b))

(***************************************************************************)
(* Scalars: integers modulo n (scalar.h).                                  *)
(***************************************************************************)
Scalar == 0..(GroupOrder - 1)

\* scalar_set_b32: the value reduced mod n, and whether the raw value was >= n
scalar_set_b32(b32) ==
    [val      |-> BEmod(b32, GroupOrder),
     overflow |-> IF BEless(b32, BEbytes(GroupOrder, ScalarBytes)) THEN 0 ELSE 1]

scalar_get_b32(a) == BEbytes(a, ScalarBytes)

scalar_is_zero(a) == a = 0

scalar_mul(a, b) == (a * b) % GroupOrder

scalar_add(a, b) == (a + b) % GroupOrder

scalar_negate(a) == (GroupOrder - a) % GroupOrder

\* scalar_is_high: a > n/2
scalar_is_high(a) == a > GroupOrder \div 2

ScalarInverseTable ==
    [a \in 1..(GroupOrder - 1) |->
        CHOOSE b \in 1..(GroupOrder - 1) : (a * b) % GroupOrder = 1]

\* scalar_inverse / scalar_inverse_var (the inverse of zero is zero)
scalar_inverse(a) == IF a = 0 THEN 0 ELSE ScalarInverseTable[a]

(***************************************************************************)
(* Field elements: integers modulo p (field.h).                            *)
(***************************************************************************)
fe_set_b32(b32) == BEmod(b32, FieldPrime)

fe_get_b32(a) == BEbytes(a, ScalarBytes)

fe_mul(a, b) == (a * b) % FieldPrime

fe_add(a, b) == (a + b) % FieldPrime

fe_sub(a, b) == (a + FieldPrime - b) % FieldPrime

fe_is_odd(a) == a % 2 = 1

\* fe_cmp_var: -1, 0, 1
fe_cmp_var(a, b) == IF a < b THEN -1 ELSE IF a = b THEN 0 ELSE 1

FieldInverseTable ==
    [a \in 1..(FieldPrime - 1) |->
        CHOOSE b \in 1..(FieldPrime - 1) : (a * b) % FieldPrime = 1]

fe_inv(a) == FieldInverseTable[a]

(***************************************************************************)
(* Group elements (group.h): affine points and Jacobian points.            *)
(***************************************************************************)
Infinity == [x |-> 0, y |-> 0, infinity |-> TRUE]

Ge(x, y) == [x |-> x, y |-> y, infinity |-> FALSE]

OnCurve(x, y) == fe_mul(y, y) = fe_add(fe_mul(fe_mul(x, x), x), CurveB)

\* affine addition
ge_add(a, b) ==
    IF a.infinity THEN b
    ELSE IF b.infinity THEN a
    ELSE IF a.x = b.x /\ fe_add(a.y, b.y) = 0 THEN Infinity
    ELSE LET l == IF a.x = b.x
                  THEN fe_mul(fe_mul(3, fe_mul(a.x, a.x)), fe_inv(fe_mul(2, a.y)))
                  ELSE fe_mul(fe_sub(b.y, a.y), fe_inv(fe_sub(b.x, a.x)))
             x == fe_sub(fe_sub(fe_mul(l, l), a.x), b.x)
         IN  Ge(x, fe_sub(fe_mul(l, fe_sub(a.x, x)), a.y))

RECURSIVE ge_mul(_, _)
\* k * a by double-and-add
ge_mul(k, a) ==
    IF k = 0 THEN Infinity
    ELSE LET h == ge_mul(k \div 2, a)
             d == ge_add(h, h)
         IN  IF k % 2 = 1 THEN ge_add(d, a) ELSE d

\* the generator: the point of least x, then least y
Generator ==
    LET x == CHOOSE u \in 0..(FieldPrime - 1) :
                 /\ \E v \in 0..(FieldPrime - 1) : OnCurve(u, v)
                 /\ \A w \in 0..(u - 1) : \A v \in 0..(FieldPrime - 1) : ~OnCurve(w, v)
        y == CHOOSE v \in 0..(FieldPrime - 1) :
                 OnCurve(x, v) /\ \A w \in 0..(v - 1) : ~OnCurve(x, w)
    IN  Ge(x, y)

GeneratorTable == [k \in 0..(GroupOrder - 1) |-> ge_mul(k, Generator)]

\* ecmult_gen: k * G, in Jacobian coordinates with denominator z
ToJacobian(a, z) ==
    IF a.infinity THEN [x |-> 0, y |-> 0, z |-> 0, infinity |-> TRUE]
    ELSE [x |-> fe_mul(a.x, fe_mul(z, z)),
          y |-> fe_mul(a.y, fe_mul(z, fe_mul(z, z))),
          z |-> z, infinity |-> FALSE]

\* ge_set_gej: the affine point of a Jacobian point
ge_set_gej(a) ==
    IF a.infinity THEN Infinity
    ELSE LET zi == fe_inv(a.z)
         IN  Ge(fe_mul(a.x, fe_mul(zi, zi)), fe_mul(a.y, fe_mul(zi, fe_mul(zi, zi))))

gej_is_infinity(a) == a.infinity

\* gej_eq_x_var: x * a.z^2 = a.x (mod p), for a not at infinity
gej_eq_x_var(x, a) == fe_mul(x % FieldPrime, fe_mul(a.z, a.z)) = a.x

\* ecmult_gen: gn * G
ecmult_gen(gn, z) == ToJacobian(GeneratorTable[gn], z)

\* ecmult: na * a + ng * G
ecmult(a, na, ng, z) == ToJacobian(ge_add(ge_mul(na, a), GeneratorTable[ng]), z)

(***************************************************************************)
(* The DER parser.  A cursor context carries the cursor (an offset into    *)
(* the buffer), the offsets of the bytes read so far, the values the       *)
(* cursor has taken and the overflow flag of each INTEGER parsed.  A C     *)
(* function is split where it binds a local: the operator that follows     *)
(* takes the local as a parameter.                                         *)
(***************************************************************************)
\* the byte the code reads at offset o; outside the allocation the read is
\* undefined (the parser is shown never to read there)
Deref(buf, o) == IF o >= 0 /\ o < Len(buf) THEN At(buf, o) ELSE 0

\* the context after reading the byte at offset o
Rd(c, o) == [c EXCEPT !.reads = @ \cup {o}]

\* the context after moving the cursor to offset p
Mv(c, p) == [c EXCEPT !.pos = p, !.trail = Append(@, p)]

\* the context after reading the byte under the cursor and stepping over it
Step(c) == Mv(Rd(c, c.pos), c.pos + 1)

LenResult(ret, c) == [ret |-> ret, c |-> c]

RECURSIVE der_read_len_loop(_, _, _, _, _)
RECURSIVE der_read_len_octet(_, _, _, _, _)
\* der_read_len_loop without the final check that a long form is needed
der_read_len_loop_any_value(buf, c, sigend, lenleft, ret) ==
    IF lenleft > 0
    THEN der_read_len_octet(buf, Rd(c, c.pos), sigend, lenleft,
                            ret * 256 + Deref(buf, c.pos))
    ELSE LenResult(ret, c)

\* lines 85-90: ret is already (ret << 8) | **sigp
der_read_len_octet(buf, c, sigend, lenleft, ret) ==
    IF ret + lenleft > sigend - c.pos THEN LenResult(-1, c)
    ELSE der_read_len_loop(buf, Mv(c, c.pos + 1), sigend, lenleft - 1, ret)

\* lines 83-96: accumulate the long-form octets
der_read_len_loop(buf, c, sigend, lenleft, ret) ==
    IF lenleft > 0
    THEN der_read_len_octet(buf, Rd(c, c.pos), sigend, lenleft,
                            ret * 256 + Deref(buf, c.pos))
    ELSE IF ret < 128 THEN LenResult(-1, c)
    ELSE LenResult(ret, c)

\* lines 69-82: the long form; the cursor is on the first length octet
der_read_len_long(buf, c, sigend, lenleft) ==
    IF lenleft > sigend - c.pos THEN LenResult(-1, c)
    ELSE IF Deref(buf, c.pos) = 0 THEN LenResult(-1, Rd(c, c.pos))
    ELSE IF lenleft > sizeof_size_t THEN LenResult(-1, Rd(c, c.pos))
    ELSE der_read_len_loop(buf, Rd(c, c.pos), sigend, lenleft, 0)

\* lines 56-68: the first length octet b1 has been read
der_read_len_first(buf, c, sigend, b1) ==
    IF b1 = 255 THEN LenResult(-1, c)
    ELSE IF b1 < 128 THEN LenResult(b1, c)
    ELSE IF b1 = 128 THEN LenResult(-1, c)
    ELSE der_read_len_long(buf, c, sigend, b1 % 128)

\* der_read_len without the check that the cursor is before the end
der_read_len_unchecked(buf, c, sigend) ==
    der_read_len_first(buf, Step(c), sigend, Deref(buf, c.pos))

\* lines 49-97
der_read_len(buf, c, sigend) ==
    IF c.pos >= sigend THEN LenResult(-1, c)
    ELSE der_read_len_first(buf, Step(c), sigend, Deref(buf, c.pos))

IntResult(ok, r, c) == [ok |-> ok, r |-> r, c |-> c]

RECURSIVE skip_zero_bytes(_, _, _)
\* lines 126-130: skip leading zero bytes
skip_zero_bytes(buf, c, rlen) ==
    IF rlen > 0
    THEN IF Deref(buf, c.pos) = 0
         THEN skip_zero_bytes(buf, Step(c), rlen - 1)
         ELSE [rlen |-> rlen, c |-> Rd(c, c.pos)]
    ELSE [rlen |-> rlen, c |-> c]

\* lines 138-142: the overflow coercion and the final cursor move
der_parse_integer_store(c, rlen, val, overflow) ==
    IntResult(1, IF overflow # 0 THEN 0 ELSE val,
              [Mv(c, c.pos + rlen) EXCEPT !.coerced = Append(@, overflow)])

\* der_parse_integer_set keeping a value >= n, reduced, instead of flagging it
der_parse_integer_set_reduced(c, rlen, sc) ==
    der_parse_integer_store([c EXCEPT !.reads = @ \cup (c.pos..(c.pos + rlen - 1))],
                            rlen, sc.val, 0)

\* lines 134-137: memcpy into ra and scalar_set_b32
der_parse_integer_set(c, rlen, sc) ==
    der_parse_integer_store([c EXCEPT !.reads = @ \cup (c.pos..(c.pos + rlen - 1))],
                            rlen, sc.val, sc.overflow)

\* lines 131-137
der_parse_integer_value(buf, c, rlen, overflow) ==
    IF rlen > ScalarBytes \/ overflow # 0
    THEN der_parse_integer_store(c, rlen, 0, 1)
    ELSE der_parse_integer_set(c, rlen,
             scalar_set_b32(Zeros(ScalarBytes - rlen) \o Slice(buf, c.pos, rlen)))

\* lines 126-130, with the skipped cursor and length
der_parse_integer_skip(buf, sk, overflow) ==
    der_parse_integer_value(buf, sk.c, sk.rlen, overflow)

\* der_parse_integer_padding without the check for 0x00 padding
der_parse_integer_padding_zero_ok(r, buf, c, rlen, first) ==
    IF first = 255 /\ rlen > 1 /\ Deref(buf, c.pos + 1) >= 128
    THEN IntResult(0, r, Rd(Rd(c, c.pos), c.pos + 1))
    ELSE der_parse_integer_skip(buf,
             skip_zero_bytes(buf,
                 IF first \in {0, 255} /\ rlen > 1
                 THEN Rd(Rd(c, c.pos), c.pos + 1) ELSE Rd(c, c.pos),
                 rlen),
             IF first >= 128 THEN 1 ELSE 0)

\* lines 114-125: the padding checks and the sign; first is **sig
der_parse_integer_padding(r, buf, c, rlen, first) ==
    IF first = 0 /\ rlen > 1 /\ Deref(buf, c.pos + 1) < 128
    THEN IntResult(0, r, Rd(Rd(c, c.pos), c.pos + 1))
    ELSE IF first = 255 /\ rlen > 1 /\ Deref(buf, c.pos + 1) >= 128
    THEN IntResult(0, r, Rd(Rd(c, c.pos), c.pos + 1))
    ELSE der_parse_integer_skip(buf,
             skip_zero_bytes(buf,
                 IF first \in {0, 255} /\ rlen > 1
                 THEN Rd(Rd(c, c.pos), c.pos + 1) ELSE Rd(c, c.pos),
                 rlen),
             IF first >= 128 THEN 1 ELSE 0)

\* lines 110-113: rl is the result of der_read_len
der_parse_integer_len(r, buf, sigend, rl) ==
    IF rl.ret <= 0 \/ rl.c.pos + rl.ret > sigend THEN IntResult(0, r, rl.c)
    ELSE der_parse_integer_padding(r, buf, rl.c, rl.ret, Deref(buf, rl.c.pos))

\* lines 99-143; r is the scalar object's value before the call
der_parse_integer(r, buf, c, sigend) ==
    IF c.pos = sigend THEN IntResult(0, r, c)
    ELSE IF Deref(buf, c.pos) # 2 THEN IntResult(0, r, Rd(c, c.pos))
    ELSE der_parse_integer_len(r, buf, sigend, der_read_len(buf, Step(c), sigend))

\* the result of ecdsa_sig_parse: return value, the two scalar objects, the cursor context
ParseResult(ret, r, s, c) ==
    [ret |-> ret, rr |-> r, rs |-> s, pos |-> c.pos, reads |-> c.reads, trail |-> c.trail,
     coerced |-> c.coerced]

\* ecdsa_sig_parse_s without the test of the second der_parse_integer's result
ecdsa_sig_parse_s_unchecked(rr, ps, sigend) ==
    IF ps.c.pos # sigend THEN ParseResult(0, rr, ps.r, ps.c)
    ELSE ParseResult(1, rr, ps.r, ps.c)

\* lines 165-174: ps is the result of the second der_parse_integer
ecdsa_sig_parse_s(rr, ps, sigend) ==
    IF ps.ok = 0 THEN ParseResult(0, rr, ps.r, ps.c)
    ELSE IF ps.c.pos # sigend THEN ParseResult(0, rr, ps.r, ps.c)
    ELSE ParseResult(1, rr, ps.r, ps.c)

\* lines 162-165: pr is the result of the first der_parse_integer
ecdsa_sig_parse_r(rs0, buf, sigend, pr) ==
    IF pr.ok = 0 THEN ParseResult(0, pr.r, rs0, pr.c)
    ELSE ecdsa_sig_parse_s(pr.r, der_parse_integer(rs0, buf, pr.c, sigend), sigend)

\* lines 153-162: rl is the result of der_read_len
ecdsa_sig_parse_seq(rr0, rs0, buf, sigend, rl) ==
    IF rl.ret < 0 \/ rl.c.pos + rl.ret > sigend THEN ParseResult(0, rr0, rs0, rl.c)
    ELSE IF rl.c.pos + rl.ret # sigend THEN ParseResult(0, rr0, rs0, rl.c)
    ELSE ecdsa_sig_parse_r(rs0, buf, sigend, der_parse_integer(rr0, buf, rl.c, sigend))

\* the context at the call
StartContext == [pos |-> 0, reads |-> {}, trail |-> <<0>>, coerced |-> <<>>]

\* lines 145-175; rr0, rs0 are the scalar objects' values before the call
ecdsa_sig_parse(rr0, rs0, buf, size) ==
    IF 0 = size THEN ParseResult(0, rr0, rs0, StartContext)
    ELSE IF Deref(buf, 0) # 48 THEN ParseResult(0, rr0, rs0, Step(StartContext))
    ELSE ecdsa_sig_parse_seq(rr0, rs0, buf, size,
                             der_read_len(buf, Step(StartContext), size))

(***************************************************************************)
(* The DER serializer.                                                     *)
(***************************************************************************)
RECURSIVE strip_leading_zeros_unsigned(_)
\* strip_leading_zeros without the test of the next byte's high bit
strip_leading_zeros_unsigned(r) ==
    IF Len(r) > 1 /\ r[1] = 0 THEN strip_leading_zeros_unsigned(Tail(r)) ELSE r

RECURSIVE strip_leading_zeros(_)
\* lines 183-184: while (len > 1 && p[0] == 0 && p[1] < 0x80) { len--; p++; }
strip_leading_zeros(r) ==
    IF Len(r) > 1 /\ r[1] = 0 /\ r[2] < 128 THEN strip_leading_zeros(Tail(r)) ELSE r

\* lines 190-197: the bytes written at sig[0..]
ecdsa_sig_serialize_bytes(r, s) ==
    <<48, (4 + Len(s) + Len(r)) % 256, 2, Len(r)>> \o r \o <<2, Len(s)>> \o s

\* the buffer after enc is written at its start
WriteAt0(sig, enc) == [i \in 1..Len(sig) |-> IF i <= Len(enc) THEN enc[i] ELSE sig[i]]

\* ecdsa_sig_serialize_write that reports the size on success only
ecdsa_sig_serialize_write_silent(sig, size, r, s) ==
    IF size < 6 + Len(s) + Len(r)
    THEN [ret |-> 0, sig |-> sig, size |-> size]
    ELSE [ret |-> 1, sig |-> WriteAt0(sig, ecdsa_sig_serialize_bytes(r, s)),
          size |-> 6 + Len(s) + Len(r)]

\* lines 185-198: r, s are rp[0..lenR) and sp[0..lenS)
ecdsa_sig_serialize_write(sig, size, r, s) ==
    IF size < 6 + Len(s) + Len(r)
    THEN [ret |-> 0, sig |-> sig, size |-> 6 + Len(s) + Len(r)]
    ELSE [ret |-> 1, sig |-> WriteAt0(sig, ecdsa_sig_serialize_bytes(r, s)),
          size |-> 6 + Len(s) + Len(r)]

\* lines 177-199: sig is the caller's buffer, size the value of *size at the call
ecdsa_sig_serialize(sig, size, ar, as) ==
    ecdsa_sig_serialize_write(sig, size,
                              strip_leading_zeros(<<0>> \o scalar_get_b32(ar)),
                              strip_leading_zeros(<<0>> \o scalar_get_b32(as)))

(***************************************************************************)
(* The ECDSA engine.                                                       *)
(***************************************************************************)
\* a point object no call has computed
NoPoint == [x |-> 0, y |-> 0, z |-> 0, infinity |-> TRUE]

\* verify_x_check_fe without the second candidate xr + n
verify_x_check_fe_one_case(xr, pr) ==
    IF gej_eq_x_var(xr, pr) THEN 1 ELSE 0

\* lines 254-267: xr is r as a field element
verify_x_check_fe(xr, pr) ==
    IF gej_eq_x_var(xr, pr) THEN 1
    ELSE IF fe_cmp_var(xr, ecdsa_const_p_minus_order) >= 0 THEN 0
    ELSE IF gej_eq_x_var(fe_add(xr, ecdsa_const_order_as_fe), pr) THEN 1
    ELSE 0

\* lines 235-267: the production comparison of r with the x coordinate of pr
verify_x_check(sigr, pr) == verify_x_check_fe(fe_set_b32(scalar_get_b32(sigr)), pr)

\* lines 223-233: the comparison of the EXHAUSTIVE_TEST_ORDER build
verify_x_check_exhaustive(sigr, pr) ==
    IF sigr = scalar_set_b32(fe_get_b32(ge_set_gej(pr).x)).val THEN 1 ELSE 0

\* lines 219-268: pr is the point ecmult computed
ecdsa_sig_verify_point(sigr, pr) ==
    IF gej_is_infinity(pr) THEN [ret |-> 0, pr |-> pr]
    ELSE [ret |-> verify_x_check(sigr, pr), pr |-> pr]

\* lines 215-218: sn is the inverse of s
ecdsa_sig_verify_sn(sigr, sn, pubkey, message, z) ==
    ecdsa_sig_verify_point(sigr,
        ecmult(pubkey, scalar_mul(sn, sigr), scalar_mul(sn, message), z))

\* lines 201-269; z is the denominator ecmult leaves in its Jacobian result
ecdsa_sig_verify(sigr, sigs, pubkey, message, z) ==
    IF scalar_is_zero(sigr) \/ scalar_is_zero(sigs) THEN [ret |-> 0, pr |-> NoPoint]
    ELSE ecdsa_sig_verify_sn(sigr, scalar_inverse(sigs), pubkey, message, z)

\* VERIFY_CHECK(cond): the program goes on only when cond holds
VERIFY_CHECK(cond) == cond

SignResult(ret, abort, sigr, sigs, recid) ==
    [ret |-> ret, abort |-> abort, sigr |-> sigr, sigs |-> sigs, recid |-> recid]

\* ecdsa_sig_sign_low_s without the negation of a high s
ecdsa_sig_sign_low_s_keep(sigr, sigs, recid) ==
    IF scalar_is_zero(sigs) THEN SignResult(0, FALSE, sigr, sigs, recid)
    ELSE SignResult(1, FALSE, sigr, sigs, recid)

\* lines 301-310: the zero check and the low-s canonicalization
ecdsa_sig_sign_low_s(sigr, sigs, recid) ==
    IF scalar_is_zero(sigs) THEN SignResult(0, FALSE, sigr, sigs, recid)
    ELSE IF scalar_is_high(sigs)
    THEN SignResult(1, FALSE, sigr, scalar_negate(sigs),
                    IF recid % 2 = 1 THEN recid - 1 ELSE recid + 1)
    ELSE SignResult(1, FALSE, sigr, sigs, recid)

\* ecdsa_sig_sign_s without the addition of the message
ecdsa_sig_sign_s_no_message(sigr, seckey, message, nonce, recid) ==
    ecdsa_sig_sign_low_s(sigr,
        scalar_mul(scalar_inverse(nonce), scalar_mul(sigr, seckey)),
        recid)

\* lines 294-297: s = nonce^-1 * (r * seckey + message)
ecdsa_sig_sign_s(sigr, seckey, message, nonce, recid) ==
    ecdsa_sig_sign_low_s(sigr,
        scalar_mul(scalar_inverse(nonce), scalar_add(scalar_mul(sigr, seckey), message)),
        recid)

\* lines 284-293: sc is the result of scalar_set_b32 on the x coordinate of R = r
ecdsa_sig_sign_r(seckey, message, nonce, r, sc) ==
    IF ~(VERIFY_CHECK(~scalar_is_zero(sc.val)) /\ VERIFY_CHECK(sc.overflow = 0))
    THEN SignResult(-1, TRUE, sc.val, Unset, -1)
    ELSE ecdsa_sig_sign_s(sc.val, seckey, message, nonce,
             (IF sc.overflow # 0 THEN 2 ELSE 0) + (IF fe_is_odd(r.y) THEN 1 ELSE 0))

\* lines 279-283: r is the affine point nonce * G
ecdsa_sig_sign_point(seckey, message, nonce, r) ==
    ecdsa_sig_sign_r(seckey, message, nonce, r, scalar_set_b32(fe_get_b32(r.x)))

\* lines 271-311; z is the denominator ecmult_gen leaves in its Jacobian result
ecdsa_sig_sign(seckey, message, nonce, z) ==
    ecdsa_sig_sign_point(seckey, message, nonce, ge_set_gej(ecmult_gen(nonce, z)))

(***************************************************************************)
(* Inputs.  Wire inputs are DER byte strings built from their parts, each  *)
(* labelled with how it was built: well-formed with the class of each      *)
(* INTEGER, or carrying one named defect; plus every short string over a   *)
(* small alphabet.                                                         *)
(***************************************************************************)
\* longest arbitrary byte string tried
MaxJunkLen == 4
\* capacity of the caller's output buffer
MaxCap == 12
\* number of secret keys tried beside 1 and n - 1
NumSecKeys == 1
\* number of messages tried with every nonce
NumMessages == 2
\* number of nonces tried with every message
NumNonces == 2

\* the minimal DER INTEGER content of a value below 2^23 (X.690 8.3)
RefDerInt(v) ==
    IF v < 128 THEN <<v>>
    ELSE IF v < 32768 /\ v >= 256 THEN <<v \div 256, v % 256>>
    ELSE IF v < 256 THEN <<0, v>>
    ELSE IF v < 8388608 /\ v >= 65536 THEN <<v \div 65536, (v \div 256) % 256, v % 256>>
    ELSE <<0, v \div 256, v % 256>>

\* the DER length octets of a length below 65536 (X.690 8.1.3)
RefDerLen(l) ==
    IF l < 128 THEN <<l>>
    ELSE IF l < 256 THEN <<129, l>>
    ELSE <<130, l \div 256, l % 256>>

TLV(tag, lenbytes, content) == <<tag>> \o lenbytes \o content

\* INTEGER contents by class
PlainValues == {0, 1, 127, 128, 255, 256, GroupOrder \div 2, GroupOrder - 1}

GeqNValues == {GroupOrder, GroupOrder + 1, 1024, 32767, 65536}

IntSamples ==
    {[bytes |-> RefDerInt(v), class |-> "plain"] : v \in PlainValues}
    \cup {[bytes |-> RefDerInt(v), class |-> "geq_n"] : v \in GeqNValues}
    \cup {[bytes |-> b, class |-> "geq_n"] :
            b \in {<<1>> \o Zeros(ScalarBytes - 1), <<0, 128>> \o Zeros(ScalarBytes - 1)}}
    \cup {[bytes |-> b, class |-> "long"] :
            b \in {<<1>> \o Zeros(ScalarBytes), <<0, 128>> \o Zeros(ScalarBytes),
                   <<1>> \o Zeros(127)}}
    \cup {[bytes |-> b, class |-> "negative"] :
            b \in {<<128>>, <<255>>, <<128, 0>>, <<255, 127>>, <<129>> \o Zeros(ScalarBytes)}}

\* a signature from its parts: the three length fields, the two contents, bytes
\* inside the SEQUENCE after the second INTEGER, bytes after the SEQUENCE
SigParts(seqlen, rlen, r, slen, s, inner, after) ==
    <<48>> \o seqlen \o TLV(2, rlen, r) \o TLV(2, slen, s) \o inner \o after

\* the length of the SEQUENCE content
ContentLen(rlen, r, slen, s, inner) == 2 + Len(rlen) + Len(r) + Len(slen) + Len(s) + Len(inner)

\* the canonical encoding of two INTEGER contents
SigOf(r, s) ==
    SigParts(RefDerLen(ContentLen(RefDerLen(Len(r)), r, RefDerLen(Len(s)), s, <<>>)),
             RefDerLen(Len(r)), r, RefDerLen(Len(s)), s, <<>>, <<>>)

Wire(bytes, kind, rclass, sclass) ==
    [bytes |-> bytes, kind |-> kind, rclass |-> rclass, sclass |-> sclass]

WellFormedInputs ==
    {Wire(SigOf(r.bytes, s.bytes), "wellformed", r.class, s.class) : r, s \in IntSamples}

\* contents the defects are planted beside
BaseInts == {<<1>>, <<0, 128>>, RefDerInt(GroupOrder - 1)}

ZeroPadded == {<<0, 0>>, <<0, 1>>, <<0, 127>>, <<0, 0, 128>>}

FFPadded == {<<255, 128>>, <<255, 255>>, <<255, 255, 1>>}

PaddingInputs ==
    {Wire(SigOf(x, b), "zero_padding", "none", "none") : x \in ZeroPadded, b \in BaseInts}
    \cup {Wire(SigOf(b, x), "zero_padding", "none", "none") : x \in ZeroPadded, b \in BaseInts}
    \cup {Wire(SigOf(x, b), "ff_padding", "none", "none") : x \in FFPadded, b \in BaseInts}
    \cup {Wire(SigOf(b, x), "ff_padding", "none", "none") : x \in FFPadded, b \in BaseInts}

\* a defective encoding of the length l
BadLen(kind, l) ==
    CASE kind = "indefinite" -> <<128>>
      [] kind = "reserved" -> <<255>>
      [] kind = "long_leading_zero" -> <<130, 0, l>>
      [] kind = "long_below_128" -> <<129, l>>
      [] kind = "overlong" -> <<l + 1>>

BadLenKinds == {"indefinite", "reserved", "long_leading_zero", "long_below_128", "overlong"}

\* one length field replaced: of the SEQUENCE, of r, of s
BadLengthInputs ==
    {Wire(SigParts(BadLen(k, ContentLen(<<Len(r)>>, r, <<Len(s)>>, s, <<>>)),
                   <<Len(r)>>, r, <<Len(s)>>, s, <<>>, <<>>), k, "none", "none") :
        k \in BadLenKinds, r \in BaseInts, s \in BaseInts}
    \cup {Wire(SigParts(<<ContentLen(BadLen(k, Len(r)), r, <<Len(s)>>, s, <<>>)>>,
                        BadLen(k, Len(r)), r, <<Len(s)>>, s, <<>>, <<>>), k, "none", "none") :
        k \in BadLenKinds \ {"overlong"}, r \in BaseInts, s \in BaseInts}
    \cup {Wire(SigParts(<<ContentLen(<<Len(r)>>, r, BadLen(k, Len(s)), s, <<>>)>>,
                        <<Len(r)>>, r, BadLen(k, Len(s)), s, <<>>, <<>>), k, "none", "none") :
        k \in BadLenKinds, r \in BaseInts, s \in BaseInts}

\* the buffer ends inside a long-form length field
TruncatedLengthInputs ==
    {Wire(b, "truncated_length", "none", "none") :
        b \in {<<48, 129>>, <<48, 130, 1>>, <<48, 2, 2, 129>>, <<48, 3, 2, 130, 1>>,
               <<48, 5, 2, 1, 1, 2, 129>>, <<48, 6, 2, 1, 1, 2, 130, 1>>}}

Trailers == {<<0>>, <<2, 1, 1>>}

TrailingInputs ==
    {Wire(SigOf(r, s) \o x, "after_sequence", "none", "none") :
        r \in BaseInts, s \in BaseInts, x \in Trailers}
    \cup {Wire(SigParts(<<ContentLen(<<Len(r)>>, r, <<Len(s)>>, s, x)>>,
                        <<Len(r)>>, r, <<Len(s)>>, s, x, <<>>),
               "inside_sequence", "none", "none") :
        r \in BaseInts, s \in BaseInts, x \in Trailers}

\* defects the non-canonical-DER rule does not name
OtherInputs ==
    {Wire(<<49>> \o Tail(SigOf(r, s)), "bad_tag", "none", "none") : r, s \in BaseInts}
    \cup {Wire(SigOf(<<>>, s), "empty_integer", "none", "none") : s \in BaseInts}
    \cup {Wire(SigOf(r, <<>>), "empty_integer", "none", "none") : r \in BaseInts}
    \cup {Wire(SubSeq(SigOf(r, s), 1, k), "truncated", "none", "none") :
            r \in BaseInts, s \in BaseInts, k \in 0..7}

JunkAlphabet == {0, 1, 2, 48, 128, 129, 255}

RECURSIVE JunkStrings(_)
JunkStrings(k) ==
    IF k = 0 THEN {<<>>}
    ELSE LET S == JunkStrings(k - 1)
         IN  S \cup {Append(s, b) : s \in {x \in S : Len(x) = k - 1}, b \in JunkAlphabet}

JunkInputs == {Wire(b, "junk", "none", "none") : b \in JunkStrings(MaxJunkLen)}

WireInputs ==
    WellFormedInputs \cup PaddingInputs \cup BadLengthInputs \cup TruncatedLengthInputs
    \cup TrailingInputs \cup OtherInputs \cup JunkInputs

\* bytes of the caller's allocation that follow the size bytes handed to the parser
Slack == <<2, 1>>

\* scalars a caller hands to the serializer
ScalarSamples ==
    {0, 1, 127, 128, 255, 256, GroupOrder \div 2, GroupOrder \div 2 + 1, GroupOrder - 1}

\* the byte the caller's output buffer is filled with before a call
FillBytes == {170}

SecKeys == {1, GroupOrder - 1} \cup {(i * 211) % GroupOrder : i \in 1..NumSecKeys}

MessageSamples == {(i * 389) % GroupOrder : i \in 0..(NumMessages - 1)}

NonceSamples == {(i * 101) % GroupOrder : i \in 1..NumNonces}

\* denominators a multiplication may leave in its Jacobian result
ZSamples == {1, 3}

\* signatures handed to the verifier with every public key
VerifyR == {1, 10, 249, GroupOrder - 1}

VerifyS == {1, 233}

CurvePoints == {GeneratorTable[k] : k \in 1..(GroupOrder - 1)}

(***************************************************************************)
(* The state: the objects a caller of the six functions holds.             *)
(***************************************************************************)
VARIABLES
    op,        \* the last call: "init", "parse", "serialize", "sign", "verify", "abort"
    arg,       \* what the last call acted on
    ret,       \* the value the last call returned
    sig,       \* the parser's input buffer
    size,      \* the parser's size argument
    kind,      \* how the wire input was built
    rclass,    \* the class of its first INTEGER
    sclass,    \* the class of its second INTEGER
    rr,        \* the parser's first output scalar
    rs,        \* the parser's second output scalar
    pos,       \* the parser's cursor at return
    reads,     \* the offsets the parser read
    trail,     \* the values the parser's cursor took
    coerced,   \* the overflow flags of the two INTEGERs parsed
    out,       \* the serializer's output buffer
    outsize,   \* *size after the serializer returned
    cap,       \* *size at the call of the serializer
    sigr,      \* the signature's r
    sigs,      \* the signature's s
    seckey,    \* the secret key
    message,   \* the message scalar
    nonce,     \* the nonce
    recid,     \* the recovery id
    pubkey,    \* the public key
    pr         \* the point the verifier recomputed

wireVars == <<sig, size, kind, rclass, sclass>>

parseVars == <<rr, rs, pos, reads, trail, coerced>>

outVars == <<out, outsize, cap>>

sigVars == <<sigr, sigs, recid>>

keyVars == <<seckey, message, nonce, pubkey>>

vars == <<op, arg, ret, wireVars, parseVars, outVars, sigVars, keyVars, pr>>

\* nothing called yet
Fresh ==
    /\ op = "init" /\ arg = "none" /\ ret = -1
    /\ rr = Unset /\ rs = Unset /\ pos = 0 /\ reads = {} /\ trail = <<>> /\ coerced = <<>>
    /\ outsize = 0 /\ cap = 0 /\ recid = -1 /\ pr = NoPoint
    /\ \E f \in FillBytes : out = Fill(MaxCap, f)

\* a byte string arrives from the wire
InitWire ==
    /\ Fresh
    /\ \E w \in WireInputs :
        /\ sig = w.bytes \o Slack /\ size = Len(w.bytes)
        /\ kind = w.kind /\ rclass = w.rclass /\ sclass = w.sclass
    /\ sigr = Unset /\ sigs = Unset
    /\ seckey = Unset /\ message = Unset /\ nonce = Unset /\ pubkey = Infinity

\* the caller holds a signature to serialize
InitSignature ==
    /\ Fresh
    /\ sig = <<>> /\ size = 0 /\ kind = "none" /\ rclass = "none" /\ sclass = "none"
    /\ sigr \in ScalarSamples /\ sigs \in ScalarSamples
    /\ seckey = Unset /\ message = Unset /\ nonce = Unset /\ pubkey = Infinity

\* the caller holds a key pair, a message and a nonce to sign with
InitKeys ==
    /\ Fresh
    /\ sig = <<>> /\ size = 0 /\ kind = "none" /\ rclass = "none" /\ sclass = "none"
    /\ sigr = Unset /\ sigs = Unset
    /\ seckey \in SecKeys
    /\ pubkey = GeneratorTable[seckey]
    /\ \/ message \in MessageSamples /\ nonce \in 1..(GroupOrder - 1)
       \/ message \in Scalar /\ nonce \in NonceSamples

\* the caller holds a signature, a message and a public key to verify
InitVerify ==
    /\ Fresh
    /\ sig = <<>> /\ size = 0 /\ kind = "none" /\ rclass = "none" /\ sclass = "none"
    /\ sigr \in VerifyR /\ sigs \in VerifyS
    /\ seckey = Unset /\ nonce = Unset
    /\ message = 100
    /\ pubkey \in CurvePoints

Init == InitWire \/ InitSignature \/ InitKeys \/ InitVerify

\* ecdsa_sig_parse(&rr, &rs, buf, sz)
ParseCall(res, buf, sz, a) ==
        /\ op' = "parse" /\ arg' = a /\ ret' = res.ret
        /\ sig' = buf /\ size' = sz
        /\ rr' = res.rr /\ rs' = res.rs
        /\ pos' = res.pos /\ reads' = res.reads /\ trail' = res.trail
        /\ coerced' = res.coerced
        /\ UNCHANGED <<kind, rclass, sclass, outVars, sigVars, keyVars, pr>>

DoParse(buf, sz, a) == ParseCall(ecdsa_sig_parse(rr, rs, buf, sz), buf, sz, a)

\* the wire input is parsed
ParseWire ==
    /\ op = "init" /\ kind # "none"
    /\ DoParse(sig, size, "wire")

\* the bytes the serializer wrote are parsed, with the size it reported
ParseSerialized ==
    /\ op = "serialize" /\ ret = 1 /\ arg \in {"sig", "retry"}
    /\ DoParse(out, outsize, "out")

\* ecdsa_sig_serialize(out, &c, &ar, &as)
SerializeCall(res, c, a) ==
        /\ op' = "serialize" /\ arg' = a /\ ret' = res.ret
        /\ out' = res.sig /\ outsize' = res.size /\ cap' = c
        /\ UNCHANGED <<wireVars, parseVars, sigVars, keyVars, pr>>

DoSerialize(ar, as, c, a) == SerializeCall(ecdsa_sig_serialize(out, c, ar, as), c, a)

\* the caller's signature is serialized into a buffer of any capacity
SerializeSig ==
    /\ op = "init" /\ pubkey = Infinity
    /\ sigr # Unset /\ sigs # Unset
    /\ \E c \in 0..MaxCap : DoSerialize(sigr, sigs, c, "sig")

\* after a failure the caller calls again with the size reported
SerializeRetry ==
    /\ op = "serialize" /\ ret = 0 /\ arg = "sig"
    /\ outsize <= MaxCap
    /\ DoSerialize(sigr, sigs, outsize, "retry")

\* the parsed scalars are serialized again
SerializeParsed ==
    /\ op = "parse" /\ arg = "wire" /\ ret = 1
    /\ DoSerialize(rr, rs, MaxCap, "parsed")

\* ecdsa_sig_verify(ctx, &r, &s, &q, &m)
VerifyCall(res, q, m, a) ==
    /\ op' = "verify" /\ arg' = a /\ ret' = res.ret /\ pr' = res.pr
    /\ pubkey' = q /\ message' = m
    /\ UNCHANGED <<wireVars, parseVars, outVars, sigVars, seckey, nonce>>

DoVerify(r, s, q, m, a) ==
    \E z \in ZSamples : VerifyCall(ecdsa_sig_verify(r, s, q, m, z), q, m, a)

\* the signature the caller holds is verified
Verify ==
    /\ \/ op = "init" /\ pubkey # Infinity
       \/ op = "sign" /\ ret = 1
    /\ sigr # Unset /\ sigs # Unset
    /\ DoVerify(sigr, sigs, pubkey, message, IF op = "sign" THEN "signed" ELSE "sig")

\* the parsed scalars are verified against any public key and message
VerifyParsed ==
    /\ op = "parse" /\ arg = "wire" /\ ret = 1
    /\ \E q \in {GeneratorTable[k] : k \in SecKeys}, m \in MessageSamples :
        DoVerify(rr, rs, q, m, "parsed")

\* ecdsa_sig_sign(ctx, &sigr, &sigs, &seckey, &message, &nonce, &recid)
SignCall(res) ==
    /\ op' = IF res.abort THEN "abort" ELSE "sign"
    /\ arg' = "keys" /\ ret' = res.ret
    /\ sigr' = res.sigr
    /\ sigs' = IF res.abort THEN sigs ELSE res.sigs
    /\ recid' = IF res.abort THEN recid ELSE res.recid
    /\ UNCHANGED <<wireVars, parseVars, outVars, keyVars, pr>>

Sign ==
    /\ op = "init" /\ seckey # Unset
    /\ \E z \in ZSamples : SignCall(ecdsa_sig_sign(seckey, message, nonce, z))

Next ==
    \/ ParseWire
    \/ ParseSerialized
    \/ SerializeSig
    \/ SerializeRetry
    \/ SerializeParsed
    \/ Verify
    \/ VerifyParsed
    \/ Sign

Spec == Init /\ [][Next]_vars

(***************************************************************************)
(* The claims.                                                             *)
(***************************************************************************)
\* the scalars the last serialize call was given
SerializedR == IF arg = "parsed" THEN rr ELSE sigr

SerializedS == IF arg = "parsed" THEN rs ELSE sigs

\* the scalar r the last verify call was given
VerifiedR == IF arg = "parsed" THEN rr ELSE sigr

\* the length of the DER encoding of the signature (r, s)
RequiredLen(r, s) == 6 + Len(RefDerInt(r)) + Len(RefDerInt(s))

\* the first k bytes of a buffer
Prefix(buf, k) == SubSeq(buf, 1, k)

\* r and s in [1, n-1] and s in the low half
ValidLowS(r, s) == r \in 1..(GroupOrder - 1) /\ s \in 1..(GroupOrder - 1) /\ 2 * s < GroupOrder

\* C1: round trip.  For r, s in [1, n-1] with s in the low half, serializing into
\* a buffer that is large enough succeeds, and parsing exactly the bytes written,
\* with the size reported, succeeds, consumes them all and returns the same (r, s).
C1_RoundTrip ==
    /\ (op = "serialize" /\ arg \in {"sig", "retry"} /\ ValidLowS(sigr, sigs)
        /\ cap >= RequiredLen(sigr, sigs)) => ret = 1
    /\ (op = "parse" /\ arg = "out" /\ ValidLowS(sigr, sigs))
        => (ret = 1 /\ rr = sigr /\ rs = sigs /\ pos = size)

\* a round trip of an r that needs the sign-disambiguating zero byte
C1_Witness ==
    /\ op = "parse" /\ arg = "out" /\ ret = 1
    /\ sigr = 128 /\ sigs = GroupOrder \div 2 /\ rr = 128 /\ size = 10

\* the defects the non-canonical-DER rule names
NonCanonicalKinds ==
    {"zero_padding", "ff_padding", "indefinite", "reserved", "long_leading_zero",
     "long_below_128", "after_sequence", "inside_sequence", "truncated_length", "overlong"}

\* C2: non-canonical DER is rejected.  The parser fails on every input carrying
\* one of: 0x00 or 0xFF padding of an INTEGER, a length octet 0x80 or 0xFF, a
\* long-form length with a leading 0x00 octet or a value below 128, bytes after
\* the SEQUENCE, bytes inside it after the second INTEGER, a truncated length
\* or a length claiming more bytes than remain.
C2_NonCanonicalRejected ==
    (op = "parse" /\ arg = "wire" /\ kind \in NonCanonicalKinds) => ret = 0

\* a long-form length below 128 on the second INTEGER, reached and rejected
C2_Witness ==
    /\ op = "parse" /\ arg = "wire" /\ kind = "long_below_128" /\ ret = 0
    /\ rr # Unset /\ rs = Unset

\* C3: sign then verify.  Every signature ecdsa_sig_sign returns with success
\* is accepted by ecdsa_sig_verify against the public key seckey * G and the
\* same message, the signatures whose s was negated included.
C3_SignThenVerify ==
    (op = "verify" /\ arg = "signed") => ret = 1

\* s before the low-s canonicalization, from the signature's r
RawS == scalar_mul(scalar_inverse(nonce), scalar_add(scalar_mul(sigr, seckey), message))

\* a signature whose s was negated, verified
C3_Witness ==
    /\ op = "verify" /\ arg = "signed" /\ ret = 1
    /\ sigs # RawS /\ sigs = GroupOrder - RawS

\* C4: on success r # 0, s # 0 and s is in the low half; when the computed
\* s = nonce^-1 * (r * seckey + message) is zero, sign fails.
C4_SignOutputs ==
    op = "sign" =>
        /\ ret = 1 => (sigr \in 1..(GroupOrder - 1) /\ sigs \in 1..(GroupOrder - 1)
                       /\ 2 * sigs < GroupOrder)
        /\ RawS = 0 => ret = 0
        /\ ret \in {0, 1}

\* a sign call whose s came out zero
C4_Witness == op = "sign" /\ ret = 0 /\ RawS = 0 /\ sigr # 0

\* C5: serialize with a capacity below 6 + lenR + lenS fails and leaves every
\* byte of the buffer as it was; on failure and on success *size is
\* 6 + lenR + lenS, so a second call with that capacity succeeds.
C5_SerializeSize ==
    op = "serialize" =>
        /\ outsize = RequiredLen(SerializedR, SerializedS)
        /\ cap < RequiredLen(SerializedR, SerializedS)
            => (ret = 0 /\ \E f \in FillBytes : out = Fill(MaxCap, f))
        /\ arg = "retry" => (ret = 1 /\ cap = RequiredLen(sigr, sigs))

\* a second call, with the size the failed call reported, that succeeded
C5_Witness ==
    /\ op = "serialize" /\ arg = "retry" /\ ret = 1
    /\ outsize = 10 /\ Prefix(out, 2) = <<48, 8>>

\* C6 as claimed: a parse either succeeds with both rr and rs written, or fails
\* with neither rr nor rs holding a value parsed from the input.
C6_NoPartialMutation ==
    op = "parse" =>
        \/ ret = 1 /\ rr # Unset /\ rs # Unset
        \/ ret = 0 /\ rr = Unset /\ rs = Unset

\* C6 as amended: a parse succeeds only with both rr and rs written.  On
\* failure the outputs are not restored: rr holds the parsed r exactly when the
\* first INTEGER was accepted, rs holds the parsed s exactly when the second was
\* accepted too (the failure is then bytes left inside the SEQUENCE), and rs is
\* never written without rr.
C6_PartialMutation ==
    op = "parse" =>
        /\ ret = 1 => (rr \in Scalar /\ rs \in Scalar)
        /\ rr # Unset <=> Len(coerced) >= 1
        /\ rs # Unset <=> Len(coerced) = 2
        /\ rs # Unset => rr # Unset
        /\ (ret = 0 /\ rs # Unset) => pos < size

\* a failed parse that left the parsed r in rr
C6_Witness ==
    /\ op = "parse" /\ arg = "wire" /\ ret = 0
    /\ rr = GroupOrder - 1 /\ rs = Unset /\ kind = "zero_padding"

\* an INTEGER of the wire input that the parser coerces to zero
Coercing(class) == class \in {"negative", "long", "geq_n"}

\* C7: overflow is coerced to zero, not rejected.  A well-formed signature with
\* an INTEGER that is negative, longer than 32 bytes after the leading zero
\* byte, or >= n, parses with success and that scalar zero, and the verifier
\* rejects the parsed (r, s) for every public key and message.
C7_OverflowCoerced ==
    /\ (op = "parse" /\ arg = "wire" /\ kind = "wellformed") =>
        /\ ret = 1
        /\ Coercing(rclass) => rr = 0
        /\ Coercing(sclass) => rs = 0
        /\ coerced = <<IF Coercing(rclass) THEN 1 ELSE 0, IF Coercing(sclass) THEN 1 ELSE 0>>
    /\ (op = "verify" /\ arg = "parsed" /\ (Coercing(rclass) \/ Coercing(sclass))) => ret = 0

\* an r >= n coerced to zero beside a nonzero s, parsed and then rejected by the verifier
C7_Witness ==
    /\ op = "verify" /\ arg = "parsed" /\ ret = 0
    /\ rclass = "geq_n" /\ sclass = "plain" /\ rr = 0 /\ rs = GroupOrder - 1

\* the affine x coordinate of the point the verifier recomputed
AffineX == ge_set_gej(pr).x

\* C8: the two-case comparison is the direct one.  For a recomputed point that
\* is not infinity, with affine x coordinate X, and r in [1, n-1], the verifier
\* accepts exactly when X mod n = r, the result of the exhaustive-test path;
\* n < p < 2n.
C8_TwoCaseCheck ==
    /\ GroupOrder < FieldPrime /\ FieldPrime < 2 * GroupOrder
    /\ (op = "verify" /\ ~pr.infinity) =>
        /\ VerifiedR \in 1..(GroupOrder - 1)
        /\ ret = 1 <=> AffineX % GroupOrder = VerifiedR
        /\ ret = verify_x_check_exhaustive(VerifiedR, pr)

\* a signature accepted by the second case: X = r + n
C8_Witness ==
    /\ op = "verify" /\ ~pr.infinity /\ ret = 1
    /\ AffineX >= GroupOrder /\ AffineX = VerifiedR + GroupOrder /\ pr.z # 1

\* C9: bounds safety of the parser.  Every byte read is at an offset in
\* [0, size), the cursor only moves forward and never passes the end of the
\* buffer, on success and on every failure.
C9_BoundsSafety ==
    op = "parse" =>
        /\ reads \subseteq 0..(size - 1)
        /\ \A i \in 1..Len(trail) : trail[i] >= 0 /\ trail[i] <= size
        /\ \A i \in 1..(Len(trail) - 1) : trail[i] <= trail[i + 1]
        /\ trail[Len(trail)] = pos

\* a parse that failed on a truncated length after reading every byte up to the end
C9_Witness ==
    /\ op = "parse" /\ kind = "truncated_length" /\ ret = 0
    /\ size = 7 /\ reads = 0..(size - 1) /\ pos = size

\* C10: unique encoding.  When a byte string parses with success and without
\* overflow coercion, serializing the parsed (r, s) writes exactly that byte
\* string, with the same length.
C10_UniqueEncoding ==
    (op = "serialize" /\ arg = "parsed" /\ coerced = <<0, 0>>) =>
        (ret = 1 /\ outsize = size /\ Prefix(out, outsize) = Prefix(sig, size))

\* a parsed signature with a zero-prefixed r, serialized again to the same bytes
C10_Witness ==
    /\ op = "serialize" /\ arg = "parsed" /\ coerced = <<0, 0>> /\ ret = 1
    /\ rr = 128 /\ rs = GroupOrder - 1 /\ Prefix(out, outsize) = Prefix(sig, size)
=============================================================================
